---------------------------- MODULE Spec2Model ----------------------------
(***************************************************************************)
(* Model of the K230 firmware image generator (xtask/src/gen/firmware.rs), *)
(* its error type (xtask/src/error.rs) and the pad pull configuration of   *)
(* kendryte-hal/src/iomux/ops.rs.                                          *)
(*                                                                         *)
(* Bytes are integers 0..255 and byte strings are sequences of them.  The  *)
(* cryptographic primitives are library calls; they are modelled by        *)
(* deterministic stand-ins that keep what the generator relies on: the     *)
(* output lengths, the dependence on the input, and the distinction        *)
(* between the algorithms.                                                 *)
(***************************************************************************)
EXTENDS Integers, Sequences, FiniteSets, TLC

VARIABLES
    config,             \* the build: key material (gen/config.rs) and target
    pc,                 \* pc[t]: position of invocation t in gen_firmware
    data,               \* data[t]: the `data` argument
    encryption,         \* encryption[t]: the `encryption` argument
    data_with_version,  \* local of invocation t
    firmware,           \* local of invocation t: the working buffer
    ciphertext,         \* local of invocation t
    tag,                \* local of invocation t (Aes): the detached GCM tag
    e,                  \* local of invocation t (Sm4): SM3(z_a || ciphertext)
    digest,             \* local of invocation t (Sm4): what sign_raw is given
    nonce,              \* the random k drawn by sign_raw in invocation t
    sign,               \* local of invocation t (Sm4): the signature (r, s)
    signature,          \* local of invocation t (Aes): the RSA signature
    result,             \* result[t]: what the invocation returned
    str_in,             \* EncryptionType::from_str: the input string
    str_out,            \* EncryptionType::from_str: the returned value
    pad,                \* the pad register of PadOps::inner()
    pull_ret,           \* what the last PadOps::pull() returned
    last_op             \* the last PadOps operation applied

fwvars == <<config, pc, data, encryption, data_with_version, firmware,
            ciphertext, tag, e, digest, nonce, sign, signature, result>>
strvars == <<str_in, str_out>>
padvars == <<pad, pull_ret, last_op>>
vars == <<fwvars, strvars, padvars>>

-----------------------------------------------------------------------------
(* Bounds of the model.                                                    *)

MaxPayloadLen == 2
NumThreads == 2
MaxStrLen == 4

-----------------------------------------------------------------------------
(* Byte-string helpers.                                                    *)

Zeros(n) == [i \in 1..n |-> 0]

(* The sequences over S of length at most n.                               *)
SeqsUpTo(S, n) == UNION {[1..k -> S] : k \in 0..n}

(* i32::to_le_bytes, for the non-negative lengths and codes written here.  *)
to_le_bytes(n) ==
    <<n % 256, (n \div 256) % 256, (n \div 65536) % 256, (n \div 16777216) % 256>>

to_be_bytes(n) ==
    <<(n \div 16777216) % 256, (n \div 65536) % 256, (n \div 256) % 256, n % 256>>

(* i32::to_ne_bytes: the byte order of the target the tool was built for.  *)
to_ne_bytes_le(n) == to_le_bytes(n)
to_ne_bytes(n) ==
    IF config.target_endian = "little" THEN to_le_bytes(n) ELSE to_be_bytes(n)

from_le_bytes(b) == b[1] + 256 * b[2] + 65536 * b[3] + 16777216 * b[4]
from_be_bytes(b) == b[4] + 256 * b[3] + 65536 * b[2] + 16777216 * b[1]

(* BigUint::to_bytes_le: the little-endian digits of the number without    *)
(* its high-order zero bytes; zero is the single byte 0.                   *)
RECURSIVE StripHighZeros(_)
StripHighZeros(b) ==
    IF Len(b) <= 1 THEN (IF b = <<>> THEN <<0>> ELSE b)
    ELSE IF b[Len(b)] = 0 THEN StripHighZeros(SubSeq(b, 1, Len(b) - 1))
    ELSE b

to_bytes_le(digits) == StripHighZeros(digits)

-----------------------------------------------------------------------------
(* The digest primitives.  Absorb folds the bytes lo..hi of the input into *)
(* an accumulator that depends on each byte and its position, and Squeeze  *)
(* expands it to n bytes; alg separates the algorithms.                    *)

RECURSIVE Absorb(_, _, _)
Absorb(b, lo, hi) ==
    IF lo > hi THEN 0
    ELSE IF lo = hi THEN ((b[lo] + 1) * (((lo * lo) % 251) + 7)) % 65521
    ELSE LET mid == (lo + hi) \div 2
         IN  (Absorb(b, lo, mid) + 3 * Absorb(b, mid + 1, hi)) % 65521

Squeeze(alg, b, n) ==
    LET acc == (Absorb(b, 1, Len(b)) + alg * 977 + Len(b) * 131 + 7) % 65521
    IN  [i \in 1..n |-> (acc * (2 * i + 1) + (acc \div 256) * i + alg + i * i) % 256]

sha_256(bytes) == Squeeze(1, bytes, 32)

Sm3Hash(bytes) == Squeeze(2, bytes, 32)


-----------------------------------------------------------------------------
(* Key material and format constants of gen/config.rs.                     *)

MAGIC == <<75, 50, 51, 48>>
VERSION == <<0, 0, 0, 0>>
ADD_AUTH_DATA == <<>>
PUBLIC_KEY_X == [i \in 1..32 |-> (3 * i + 11) % 256]
PUBLIC_KEY_Y == [i \in 1..32 |-> (5 * i + 23) % 256]
PUBLIC_KEY == PUBLIC_KEY_X \o PUBLIC_KEY_Y
RsaModulus == [i \in 1..256 |-> ((7 * i + 1) % 255) + 1]
RsaExponent == <<1, 0, 1>>

(* The curve parameters EccCtx hands out, 32 bytes each.                   *)
CurveA == [i \in 1..32 |-> (i + 40) % 256]
CurveB == [i \in 1..32 |-> (i + 80) % 256]
CurveGx == [i \in 1..32 |-> (i + 120) % 256]
CurveGy == [i \in 1..32 |-> (i + 160) % 256]

(* ID: the configured identity string; ID_LEN: its length in bits, 2 bytes. *)
IdOfLen(n) == [i \in 1..n |-> 49 + ((i - 1) % 8)]
ID == config.id
ID_LEN == <<((8 * Len(ID)) \div 256) % 256, (8 * Len(ID)) % 256>>

-----------------------------------------------------------------------------
(* The format's sizes, as the generator writes them.                       *)

HASH_LEN == 32
NONE_META_LEN == 516
SM4_META_LEN == 512
SM4_KEYSIG_LEN == 128
TAG_LEN == 16
SM4_BLOCK == 16

(* enum EncryptionType { None = 0, Sm4 = 1, Aes = 2 }, and `as i32`.       *)
EncryptionType == {"None", "Sm4", "Aes"}
as_i32(enc) == CASE enc = "None" -> 0 [] enc = "Sm4" -> 1 [] enc = "Aes" -> 2

-----------------------------------------------------------------------------
(* The cipher and signature primitives.                                    *)

(* libsm Cipher::encrypt in CBC mode: the plaintext is padded to whole     *)
(* blocks (a full block when it is already aligned) and each block is      *)
(* chained to the one before it.                                           *)
Sm4Pad(p) ==
    LET n == SM4_BLOCK - (Len(p) % SM4_BLOCK)
    IN  p \o [i \in 1..n |-> n]

Sm4CbcEncrypt(p) ==
    LET padded == Sm4Pad(p)
        c[i \in 1..Len(padded)] ==
            (padded[i] + 91 + (IF i <= SM4_BLOCK THEN 29 + i ELSE c[i - SM4_BLOCK])) % 256
    IN  [i \in 1..Len(padded) |-> c[i]]

(* Aes256Gcm::encrypt_in_place_detached: the buffer keeps its length and   *)
(* the 16-byte tag is returned apart.                                      *)
AesGcmEncrypt(p) == [i \in 1..Len(p) |-> (p[i] + 17 * i + 101) % 256]
AesGcmTag(aad, ct) == Squeeze(4, aad \o ct, TAG_LEN)

(* Pkcs1v15Sign::sign with the private key: as long as the modulus.        *)
RsaSign(hashed) == Squeeze(5, hashed, Len(RsaModulus))

(* SigCtx::hash(id, pk, msg): SM3(Z || msg), Z the digest of the signer's  *)
(* identity, the curve and the public key.                                 *)
SigCtxZ == Sm3Hash(ID_LEN \o ID \o CurveA \o CurveB \o CurveGx \o CurveGy \o PUBLIC_KEY)
SigCtxHash(msg) == Sm3Hash(SigCtxZ \o msg)

(* SigCtx::sign_raw(digest, sk) with the random k it draws: r and s are    *)
(* numbers below the group order, held as BigUint.  Their 32 little-endian *)
(* digits are given here; the high-order digit can be zero.                *)
Nonces == {1, 2, 3}
SignRawR(dg, k) == [Squeeze(6, dg \o <<k>>, 32) EXCEPT ![32] = (k + 255) % 256]
SignRawS(dg, k) == [Squeeze(7, dg \o <<k>>, 32) EXCEPT ![32] = (k + 254) % 256]
sign_raw(dg, k) == [r |-> SignRawR(dg, k), s |-> SignRawS(dg, k)]

-----------------------------------------------------------------------------
(* The builds and inputs explored.                                         *)

PayloadBytes == {0, 201}
Payloads == SeqsUpTo(PayloadBytes, MaxPayloadLen)
(* Concurrent invocations are given payloads of different lengths.          *)
ConcPayloads(t) == {[i \in 1..(t - 1) |-> 201]}

(* The library calls of gen_firmware that return a Result.  config.fault   *)
(* names the one that rejects the configured key material, if any.         *)
Sm4Calls == {"Cipher::new", "Cipher::encrypt", "load_pubkey", "load_seckey",
             "generator", "SigCtx::hash", "sign_raw"}
AesCalls == {"encrypt_in_place_detached", "parse_N", "parse_E", "parse_D",
             "from_components", "Pkcs1v15Sign::sign"}
Calls == Sm4Calls \cup AesCalls

IdLens == {0, 16, SM4_META_LEN - SM4_KEYSIG_LEN, SM4_META_LEN - SM4_KEYSIG_LEN + 1}

Configs ==
    [id : {IdOfLen(n) : n \in IdLens},
     target_endian : {"little", "big"},
     overflow_checks : BOOLEAN,
     fault : Calls \cup {"none"}]

ConcConfigs ==
    [id : {IdOfLen(16)},
     target_endian : {"little"},
     overflow_checks : {TRUE},
     fault : {"none", "sign_raw", "parse_D"}]

Fails(call) == config.fault = call

-----------------------------------------------------------------------------
(* XtaskResult<Vec<u8>>, and the abnormal end of a call.                   *)

Pending == [kind |-> "Pending", err |-> "", image |-> <<>>]
Ok(image) == [kind |-> "Ok", err |-> "", image |-> image]
Err(kind) == [kind |-> "Err", err |-> kind, image |-> <<>>]
Panic(msg) == [kind |-> "Panic", err |-> msg, image |-> <<>>]

XtaskError == {"InvalidEncryptionType", "Io", "SM4Error", "SM2Error", "AesError",
               "RsaError", "RsaParseError"}

(* Vec::extend_from_slice on a vector the invocation owns.                 *)
ExtendShared(buf, t, bytes) == [u \in DOMAIN buf |-> buf[u] \o bytes]
Extend(buf, t, bytes) == [buf EXCEPT ![t] = buf[t] \o bytes]

Goto(t, label) == pc' = [pc EXCEPT ![t] = label]

(* `?` and `map_err(..)?`: the function returns Err at once; its locals,   *)
(* the working buffer among them, are dropped with the frame.              *)
PropagateAsOk(t, kind) ==
    /\ pc' = [pc EXCEPT ![t] = "done"]
    /\ result' = [result EXCEPT ![t] = Ok(firmware[t])]
Propagate(t, kind) ==
    /\ pc' = [pc EXCEPT ![t] = "done"]
    /\ result' = [result EXCEPT ![t] = Err(kind)]

(* A fallible call: on Err the function returns, on Ok it goes on.         *)
Try(t, call, kind, next) ==
    IF Fails(call)
    THEN Propagate(t, kind)
    ELSE Goto(t, next) /\ UNCHANGED result

-----------------------------------------------------------------------------
(* gen_firmware(data, encryption), one invocation t.                       *)

InitFirmware(T, C) ==
    /\ config \in C
    /\ pc = [t \in T |-> "idle"]
    /\ data = [t \in T |-> <<>>]
    /\ encryption = [t \in T |-> "None"]
    /\ data_with_version = [t \in T |-> <<>>]
    /\ firmware = [t \in T |-> <<>>]
    /\ ciphertext = [t \in T |-> <<>>]
    /\ tag = [t \in T |-> <<>>]
    /\ e = [t \in T |-> <<>>]
    /\ digest = [t \in T |-> <<>>]
    /\ nonce = [t \in T |-> 0]
    /\ sign = [t \in T |-> [r |-> <<>>, s |-> <<>>]]
    /\ signature = [t \in T |-> <<>>]
    /\ result = [t \in T |-> Pending]

(* Entry: data_with_version = VERSION || data, firmware = MAGIC.           *)
Call(t, P) ==
    /\ pc[t] = "idle"
    /\ \E d \in P, enc \in EncryptionType :
        /\ data' = [data EXCEPT ![t] = d]
        /\ encryption' = [encryption EXCEPT ![t] = enc]
        /\ data_with_version' = [data_with_version EXCEPT ![t] = VERSION \o d]
    /\ firmware' = Extend(firmware, t, MAGIC)
    /\ Goto(t, "match")
    /\ UNCHANGED <<strvars, padvars, config,
                   ciphertext, tag, e, digest, nonce, sign,
                   signature, result>>

(* vec![0; 516 - 32]                                                       *)
NonePaddingWhole == Zeros(NONE_META_LEN)
NonePadding == Zeros(NONE_META_LEN - HASH_LEN)

(* EncryptionType::None.                                                   *)
BuildNone(t) ==
    /\ pc[t] = "match" /\ encryption[t] = "None"
    /\ LET data_len == Len(data_with_version[t])
           data_len_bytes == to_ne_bytes(data_len)
           encryption_bytes == to_le_bytes(as_i32(encryption[t]))
           data_with_version_hash == sha_256(data_with_version[t])
           padding == NonePadding
       IN  firmware' = Extend(firmware, t,
               data_len_bytes \o encryption_bytes \o data_with_version_hash
               \o padding \o data_with_version[t])
    /\ Goto(t, "return")
    /\ UNCHANGED <<strvars, padvars, config,
                   data, encryption, data_with_version, ciphertext,
                   tag, e, digest, nonce, sign, signature, result>>

(* EncryptionType::Sm4: Cipher::new(SM4_KEY, CipherMode::Cbc)?             *)
Sm4CipherNew(t) ==
    /\ pc[t] = "match" /\ encryption[t] = "Sm4"
    /\ Try(t, "Cipher::new", "SM4Error", "sm4_encrypt")
    /\ UNCHANGED <<strvars, padvars, config,
                   data, encryption, data_with_version, firmware,
                   ciphertext, tag, e, digest, nonce, sign, signature>>

(* cipher.encrypt(..)?, then the length and type fields.                   *)
Sm4Encrypt(t) ==
    /\ pc[t] = "sm4_encrypt"
    /\ Try(t, "Cipher::encrypt", "SM4Error", "load_pubkey")
    /\ IF Fails("Cipher::encrypt")
       THEN UNCHANGED <<ciphertext, firmware>>
       ELSE LET ct == Sm4CbcEncrypt(data_with_version[t])
            IN  /\ ciphertext' = [ciphertext EXCEPT ![t] = ct]
                /\ firmware' = Extend(firmware, t,
                       to_le_bytes(Len(ct)) \o to_le_bytes(as_i32(encryption[t])))
    /\ UNCHANGED <<strvars, padvars, config,
                   data, encryption, data_with_version, tag, e,
                   digest, nonce, sign, signature>>

LoadPubkey(t) ==
    /\ pc[t] = "load_pubkey"
    /\ Try(t, "load_pubkey", "SM2Error", "load_seckey")
    /\ UNCHANGED <<strvars, padvars, config,
                   data, encryption, data_with_version, firmware,
                   ciphertext, tag, e, digest, nonce, sign, signature>>

LoadSeckey(t) ==
    /\ pc[t] = "load_seckey"
    /\ Try(t, "load_seckey", "SM2Error", "generator")
    /\ UNCHANGED <<strvars, padvars, config,
                   data, encryption, data_with_version, firmware,
                   ciphertext, tag, e, digest, nonce, sign, signature>>

(* ecc_ctx.generator()?, then z, z_a, m and e.                             *)
Generator(t) ==
    /\ pc[t] = "generator"
    /\ Try(t, "generator", "SM2Error", "hash")
    /\ IF Fails("generator")
       THEN UNCHANGED e
       ELSE LET z == ID_LEN \o ID \o CurveA \o CurveB \o CurveGx \o CurveGy \o PUBLIC_KEY
                z_a == Sm3Hash(z)
                m == z_a \o ciphertext[t]
            IN  e' = [e EXCEPT ![t] = Sm3Hash(m)]
    /\ UNCHANGED <<strvars, padvars, config,
                   data, encryption, data_with_version, firmware,
                   ciphertext, tag, digest, nonce, sign, signature>>

(* digest = sig_ctx.hash(ID, &pk, &e)?                                     *)
SigHash(t) ==
    /\ pc[t] = "hash"
    /\ Try(t, "SigCtx::hash", "SM2Error", "sign_raw")
    /\ IF Fails("SigCtx::hash")
       THEN UNCHANGED digest
       ELSE digest' = [digest EXCEPT ![t] = SigCtxHash(e[t])]
    /\ UNCHANGED <<strvars, padvars, config,
                   data, encryption, data_with_version, firmware,
                   ciphertext, tag, e, nonce, sign, signature>>

(* sign = sig_ctx.sign_raw(&digest[..], &sk)?                              *)
SignRaw(t) ==
    /\ pc[t] = "sign_raw"
    /\ Try(t, "sign_raw", "SM2Error", "sm4_assemble")
    /\ IF Fails("sign_raw")
       THEN UNCHANGED <<nonce, sign>>
       ELSE \E k \in Nonces :
               /\ nonce' = [nonce EXCEPT ![t] = k]
               /\ sign' = [sign EXCEPT ![t] = sign_raw(digest[t], k)]
    /\ UNCHANGED <<strvars, padvars, config,
                   data, encryption, data_with_version, firmware,
                   ciphertext, tag, e, digest, signature>>

(* vec![0; 512 - 32 * 4 - id.len()]: the usize subtraction overflows for a *)
(* long id.  With overflow checks it panics; without them it wraps to a    *)
(* length above isize::MAX, which the allocation refuses with a panic.     *)
PaddingPanic ==
    IF Len(ID) <= SM4_META_LEN - SM4_KEYSIG_LEN THEN ""
    ELSE IF config.overflow_checks THEN "attempt to subtract with overflow"
    ELSE "capacity overflow"

(* r, s, id_len, id, padding, the public key, r, s and the ciphertext.     *)
Sm4Assemble(t) ==
    /\ pc[t] = "sm4_assemble"
    /\ LET r == to_bytes_le(sign[t].r)
           s == to_bytes_le(sign[t].s)
           id_len_bytes == to_le_bytes(Len(ID))
       IN  IF PaddingPanic # ""
           THEN /\ firmware' = Extend(firmware, t, id_len_bytes \o ID)
                /\ pc' = [pc EXCEPT ![t] = "done"]
                /\ result' = [result EXCEPT ![t] = Panic(PaddingPanic)]
           ELSE /\ firmware' = Extend(firmware, t,
                       id_len_bytes \o ID
                       \o Zeros(SM4_META_LEN - SM4_KEYSIG_LEN - Len(ID))
                       \o PUBLIC_KEY_X \o PUBLIC_KEY_Y \o r \o s \o ciphertext[t])
                /\ Goto(t, "return")
                /\ UNCHANGED result
    /\ UNCHANGED <<strvars, padvars, config,
                   data, encryption, data_with_version, ciphertext,
                   tag, e, digest, nonce, sign, signature>>

(* EncryptionType::Aes: encrypt_in_place_detached(..)?, the tag appended   *)
(* to the ciphertext, then the length and type fields.                     *)
AesEncrypt(t) ==
    /\ pc[t] = "match" /\ encryption[t] = "Aes"
    /\ Try(t, "encrypt_in_place_detached", "AesError", "parse_N")
    /\ IF Fails("encrypt_in_place_detached")
       THEN UNCHANGED <<ciphertext, tag, firmware>>
       ELSE LET ct == AesGcmEncrypt(data_with_version[t])
                tg == AesGcmTag(ADD_AUTH_DATA, ct)
            IN  /\ tag' = [tag EXCEPT ![t] = tg]
                /\ ciphertext' = [ciphertext EXCEPT ![t] = ct \o tg]
                /\ firmware' = Extend(firmware, t,
                       to_le_bytes(Len(ct \o tg)) \o to_le_bytes(as_i32(encryption[t])))
    /\ UNCHANGED <<strvars, padvars, config,
                   data, encryption, data_with_version, e, digest,
                   nonce, sign, signature>>

ParseN(t) ==
    /\ pc[t] = "parse_N"
    /\ Try(t, "parse_N", "RsaParseError", "parse_E")
    /\ UNCHANGED <<strvars, padvars, config,
                   data, encryption, data_with_version, firmware,
                   ciphertext, tag, e, digest, nonce, sign, signature>>

ParseE(t) ==
    /\ pc[t] = "parse_E"
    /\ Try(t, "parse_E", "RsaParseError", "parse_D")
    /\ UNCHANGED <<strvars, padvars, config,
                   data, encryption, data_with_version, firmware,
                   ciphertext, tag, e, digest, nonce, sign, signature>>

ParseD(t) ==
    /\ pc[t] = "parse_D"
    /\ Try(t, "parse_D", "RsaParseError", "from_components")
    /\ UNCHANGED <<strvars, padvars, config,
                   data, encryption, data_with_version, firmware,
                   ciphertext, tag, e, digest, nonce, sign, signature>>

FromComponents(t) ==
    /\ pc[t] = "from_components"
    /\ Try(t, "from_components", "RsaError", "rsa_sign")
    /\ UNCHANGED <<strvars, padvars, config,
                   data, encryption, data_with_version, firmware,
                   ciphertext, tag, e, digest, nonce, sign, signature>>

(* tag_hash = sha_256(&tag)                                                *)
TagHashRaw(tg) == tg
TagHash(tg) == sha_256(tg)

(* signature = pkcs1_15.sign(None, key, hash)?   *)
RsaSignTag(t) ==
    /\ pc[t] = "rsa_sign"
    /\ Try(t, "Pkcs1v15Sign::sign", "RsaError", "aes_assemble")
    /\ IF Fails("Pkcs1v15Sign::sign")
       THEN UNCHANGED signature
       ELSE LET tag_hash == TagHash(tag[t])
            IN  signature' = [signature EXCEPT ![t] = RsaSign(tag_hash)]
    /\ UNCHANGED <<strvars, padvars, config,
                   data, encryption, data_with_version, firmware,
                   ciphertext, tag, e, digest, nonce, sign>>

(* n, e, the signature and the ciphertext (with its tag).                  *)
AesAssemble(t) ==
    /\ pc[t] = "aes_assemble"
    /\ LET n_bytes == to_bytes_le(RsaModulus)
           e_bytes == to_bytes_le(RsaExponent)
       IN  firmware' = Extend(firmware, t,
               n_bytes \o e_bytes \o signature[t] \o ciphertext[t])
    /\ Goto(t, "return")
    /\ UNCHANGED <<strvars, padvars, config,
                   data, encryption, data_with_version, ciphertext,
                   tag, e, digest, nonce, sign, signature, result>>

(* Ok(firmware)                                                            *)
ReturnOk(t) ==
    /\ pc[t] = "return"
    /\ pc' = [pc EXCEPT ![t] = "done"]
    /\ result' = [result EXCEPT ![t] = Ok(firmware[t])]
    /\ UNCHANGED <<strvars, padvars, config,
                   data, encryption, data_with_version, firmware,
                   ciphertext, tag, e, digest, nonce, sign, signature>>

Step(t, P) ==
    \/ Call(t, P)
    \/ BuildNone(t)
    \/ Sm4CipherNew(t)
    \/ Sm4Encrypt(t)
    \/ LoadPubkey(t)
    \/ LoadSeckey(t)
    \/ Generator(t)
    \/ SigHash(t)
    \/ SignRaw(t)
    \/ Sm4Assemble(t)
    \/ AesEncrypt(t)
    \/ ParseN(t)
    \/ ParseE(t)
    \/ ParseD(t)
    \/ FromComponents(t)
    \/ RsaSignTag(t)
    \/ AesAssemble(t)
    \/ ReturnOk(t)

StrIdle == str_in = <<>> /\ str_out = "unused"
PadIdle == pad = [pull_up_enable |-> FALSE] /\ pull_ret = "unused" /\ last_op = <<"none">>

(* One invocation, over every build and payload.                           *)
Init == InitFirmware({1}, Configs) /\ StrIdle /\ PadIdle
Next == \E t \in {1} : Step(t, Payloads)
Spec == Init /\ [][Next]_vars

(* NumThreads invocations running concurrently.                            *)
InitConc == InitFirmware(1..NumThreads, ConcConfigs) /\ StrIdle /\ PadIdle
NextConc == \E t \in 1..NumThreads : Step(t, ConcPayloads(t))
SpecConc == InitConc /\ [][NextConc]_vars

-----------------------------------------------------------------------------
(* EncryptionType::from_str.  A string is the sequence of its code points. *)

FwIdle == InitFirmware({}, {[id |-> IdOfLen(16), target_endian |-> "little",
                             overflow_checks |-> TRUE, fault |-> "none"]})

(* n N o O e E s S m M a A 4, the space, and U+0130 (capital I with dot).  *)
Alphabet == {110, 78, 111, 79, 101, 69, 115, 83, 109, 77, 97, 65, 52, 32, 304}
Strings == SeqsUpTo(Alphabet, MaxStrLen)

(* char::to_lowercase: A-Z map to a-z; U+0130 maps to the two code points  *)
(* U+0069 U+0307; the other characters of the alphabet map to themselves.  *)
LowerChar(c) ==
    IF c >= 65 /\ c <= 90 THEN <<c + 32>>
    ELSE IF c = 304 THEN <<105, 775>>
    ELSE <<c>>

(* str::to_lowercase                                                       *)
to_lowercase_exact(s) == s
RECURSIVE to_lowercase(_)
to_lowercase(s) ==
    IF s = <<>> THEN <<>> ELSE LowerChar(Head(s)) \o to_lowercase(Tail(s))

from_str(s) ==
    LET l == to_lowercase(s)
    IN  CASE l = <<110, 111, 110, 101>> -> "None"
          [] l = <<115, 109, 52>> -> "Sm4"
          [] l = <<97, 101, 115>> -> "Aes"
          [] OTHER -> "InvalidEncryptionType"

FromStr ==
    /\ str_out = "pending"
    /\ str_out' = from_str(str_in)
    /\ UNCHANGED <<str_in, fwvars, padvars>>

InitParse == str_in \in Strings /\ str_out = "pending" /\ FwIdle /\ PadIdle
NextParse == FromStr
SpecParse == InitParse /\ [][NextParse]_vars

-----------------------------------------------------------------------------
(* PadOps on the pad register of inner(), used by a single caller.         *)

Pull == {"None", "Up", "Down"}
SlewRate == {"Slow", "Fast"}
Strength == {"Low", "High"}
FunctionSelect == 0..7

PadRegister ==
    [pull_up_enable : BOOLEAN, pull_down_enable : BOOLEAN,
     schmitt_trigger_enable : BOOLEAN, slew_rate : SlewRate,
     drive_strength : Strength, function_select : FunctionSelect,
     input_enable : BOOLEAN, output_enable : BOOLEAN, data_input : {0, 1}]

(* The closures set_pull hands to modify.                                  *)
WithPullOnly(r, p) ==
    CASE p = "None" -> [r EXCEPT !.pull_up_enable = FALSE, !.pull_down_enable = FALSE]
      [] p = "Up" -> [r EXCEPT !.pull_up_enable = TRUE]
      [] p = "Down" -> [r EXCEPT !.pull_down_enable = TRUE]
WithPull(r, p) ==
    CASE p = "None" -> [r EXCEPT !.pull_up_enable = FALSE, !.pull_down_enable = FALSE]
      [] p = "Up" -> [r EXCEPT !.pull_up_enable = TRUE, !.pull_down_enable = FALSE]
      [] p = "Down" -> [r EXCEPT !.pull_up_enable = FALSE, !.pull_down_enable = TRUE]

(* The value pull() returns for the register r.                            *)
PullOf(r) ==
    CASE r.pull_up_enable /\ ~r.pull_down_enable -> "Some(Up)"
      [] ~r.pull_up_enable /\ r.pull_down_enable -> "Some(Down)"
      [] ~r.pull_up_enable /\ ~r.pull_down_enable -> "Some(None)"
      [] r.pull_up_enable /\ r.pull_down_enable -> "None"

(* RW::modify(f): the register is read, f applied, the result written.     *)
(* Applied(op) records the operation; what pull() returned before is stale. *)
modify(new) == pad' = new

Applied(op) ==
    /\ last_op' = op
    /\ pull_ret' = "unused"
    /\ UNCHANGED <<fwvars, strvars>>

set_pull(p) ==
    /\ modify(WithPull(pad, p))
    /\ Applied(<<"set_pull", p>>)

pull ==
    /\ pull_ret' = PullOf(pad)
    /\ UNCHANGED <<pad, last_op, fwvars, strvars>>

enable_schmitt_trigger ==
    /\ modify([pad EXCEPT !.schmitt_trigger_enable = TRUE])
    /\ Applied(<<"enable_schmitt_trigger">>)

disable_schmitt_trigger ==
    /\ modify([pad EXCEPT !.schmitt_trigger_enable = FALSE])
    /\ Applied(<<"disable_schmitt_trigger">>)

set_slew_rate(v) ==
    /\ modify([pad EXCEPT !.slew_rate = v])
    /\ Applied(<<"set_slew_rate", v>>)

set_drive_strength(v) ==
    /\ modify([pad EXCEPT !.drive_strength = v])
    /\ Applied(<<"set_drive_strength", v>>)

set_function_select(v) ==
    /\ modify([pad EXCEPT !.function_select = v])
    /\ Applied(<<"set_function_select">>)

set_input ==
    /\ modify([pad EXCEPT !.input_enable = TRUE, !.output_enable = FALSE])
    /\ Applied(<<"set_input">>)

set_output ==
    /\ modify([pad EXCEPT !.input_enable = FALSE, !.output_enable = TRUE])
    /\ Applied(<<"set_output">>)

set_bidirectional ==
    /\ modify([pad EXCEPT !.input_enable = TRUE, !.output_enable = TRUE])
    /\ Applied(<<"set_bidirectional">>)

set_disabled ==
    /\ modify([pad EXCEPT !.input_enable = FALSE, !.output_enable = FALSE])
    /\ Applied(<<"set_disabled">>)

(* The pin level changes under the register; data_input follows it.       *)
PinChanges ==
    /\ pad' = [pad EXCEPT !.data_input = 1 - pad.data_input]
    /\ UNCHANGED <<pull_ret, last_op, fwvars, strvars>>

InitPad ==
    /\ pad \in PadRegister
    /\ pull_ret = "unused"
    /\ last_op = <<"none">>
    /\ FwIdle /\ StrIdle

NextPad ==
    \/ \E p \in Pull : set_pull(p)
    \/ pull
    \/ enable_schmitt_trigger
    \/ disable_schmitt_trigger
    \/ \E v \in SlewRate : set_slew_rate(v)
    \/ \E v \in Strength : set_drive_strength(v)
    \/ \E v \in FunctionSelect : set_function_select(v)
    \/ set_input
    \/ set_output
    \/ set_bidirectional
    \/ set_disabled
    \/ PinChanges

SpecPad == InitPad /\ [][NextPad]_vars

-----------------------------------------------------------------------------
(* Properties of gen_firmware.                                             *)

Invocations == DOMAIN pc
Returned(t, enc) == pc[t] = "done" /\ encryption[t] = enc
Field(img, off, n) == SubSeq(img, off + 1, off + n)
NativeValue(b) ==
    IF config.target_endian = "little" THEN from_le_bytes(b) ELSE from_be_bytes(b)

(* C1: for every payload P, gen_firmware(P, None) succeeds and returns     *)
(* MAGIC, a 4-byte length field equal to len(VERSION || P), a 4-byte       *)
(* enc_type of 0, the 32-byte SHA-256 digest of VERSION || P, 484 zero     *)
(* bytes and VERSION || P, and nothing else: 516 bytes of digest and       *)
(* padding, len(MAGIC) + 8 + 516 + len(VERSION) + len(P) bytes in all.     *)
C1_NoneLayout ==
    \A t \in Invocations : Returned(t, "None") =>
        LET vp == VERSION \o data[t]
            img == result[t].image
            m == Len(MAGIC)
        IN  /\ result[t].kind = "Ok"
            /\ Len(img) = m + 8 + 516 + Len(VERSION) + Len(data[t])
            /\ Field(img, 0, m) = MAGIC
            /\ NativeValue(Field(img, m, 4)) = Len(vp)
            /\ Field(img, m + 4, 4) = <<0, 0, 0, 0>>
            /\ Field(img, m + 8, 32) = sha_256(vp)
            /\ Field(img, m + 40, 484) = [i \in 1..484 |-> 0]
            /\ Field(img, m + 524, Len(vp)) = vp

C1_Witness ==
    \E t \in Invocations :
        /\ Returned(t, "None") /\ result[t].kind = "Ok"
        /\ Len(data[t]) = 2 /\ data[t][1] # data[t][2]

(* C2: in every image produced for Sm4 the region from id_len through s is *)
(* exactly 516 bytes, r and s taking 32 bytes each, for every id and every *)
(* signature the signer can return, so that the ciphertext starts at       *)
(* offset len(MAGIC) + 8 + 516.                                            *)
C2_Sm4RegionIs516 ==
    \A t \in Invocations : (Returned(t, "Sm4") /\ result[t].kind = "Ok") =>
        LET img == result[t].image
            start == Len(MAGIC) + 8 + 516
        IN  /\ Len(img) = start + Len(ciphertext[t])
            /\ Field(img, start, Len(ciphertext[t])) = ciphertext[t]
            /\ Len(to_bytes_le(sign[t].r)) = 32
            /\ Len(to_bytes_le(sign[t].s)) = 32

(* C3: for Sm4 with an id longer than 384 bytes (512 - 128 - len(id)       *)
(* negative) the call is rejected with an error value returned to the      *)
(* caller: it neither panics nor returns an image.                         *)
C3_LongIdIsAnError ==
    \A t \in Invocations : (Returned(t, "Sm4") /\ Len(ID) > 384) =>
        result[t].kind = "Err"

(* C4: in every variant, when a step of gen_firmware fails the call        *)
(* returns the error of that step's kind and no image bytes, although the  *)
(* magic, length and type fields may already be in the working buffer; an  *)
(* image is returned only when every step has succeeded.                   *)
C4_KindOf(call) ==
    CASE call \in {"Cipher::new", "Cipher::encrypt"} -> "SM4Error"
      [] call \in {"load_pubkey", "load_seckey", "generator", "SigCtx::hash",
                   "sign_raw"} -> "SM2Error"
      [] call = "encrypt_in_place_detached" -> "AesError"
      [] call \in {"parse_N", "parse_E", "parse_D"} -> "RsaParseError"
      [] call \in {"from_components", "Pkcs1v15Sign::sign"} -> "RsaError"

C4_StepsOf(enc) ==
    CASE enc = "None" -> {} [] enc = "Sm4" -> Sm4Calls [] enc = "Aes" -> AesCalls

C4_FailureIsReturned ==
    \A t \in Invocations : pc[t] = "done" =>
        /\ config.fault \in C4_StepsOf(encryption[t]) =>
              /\ result[t].kind = "Err"
              /\ result[t].err = C4_KindOf(config.fault)
              /\ result[t].image = <<>>
        /\ result[t].kind = "Ok" => config.fault \notin C4_StepsOf(encryption[t])

C4_Witness ==
    \E t \in Invocations :
        /\ pc[t] = "done" /\ result[t].kind = "Err" /\ result[t].err = "RsaError"
        /\ Len(firmware[t]) = Len(MAGIC) + 8

(* C5: in the Sm4 variant the value given to the SM2 signing primitive is  *)
(* e = SM3(Za || ciphertext), Za = SM3(ID_LEN || ID || a || b || Gx || Gy  *)
(* || Px || Py), with no further hash between e and the signing, and the   *)
(* (r, s) of the image is the signature of that e.                         *)
C5_SignsE ==
    \A t \in Invocations :
        (encryption[t] = "Sm4" /\ pc[t] \in {"sm4_assemble", "return", "done"}
            /\ nonce[t] # 0) =>
        LET Za == Sm3Hash(ID_LEN \o ID \o CurveA \o CurveB \o CurveGx \o CurveGy
                          \o PUBLIC_KEY_X \o PUBLIC_KEY_Y)
            ee == Sm3Hash(Za \o ciphertext[t])
        IN  /\ digest[t] = ee
            /\ sign[t] = sign_raw(ee, nonce[t])

(* C7: the Aes image is MAGIC, cipher_len, enc_type = 2, rsa_n, rsa_e, the *)
(* RSA signature and ciphertext || tag, in that order; cipher_len is       *)
(* len(VERSION || P) + 16, the last segment is those cipher_len bytes, and *)
(* the signature is over SHA-256 of the 16-byte tag of that encryption.    *)
C7_AesLayout ==
    \A t \in Invocations : (Returned(t, "Aes") /\ result[t].kind = "Ok") =>
        LET vp == VERSION \o data[t]
            ct == AesGcmEncrypt(vp)
            tg == AesGcmTag(ADD_AUTH_DATA, ct)
            cipher_len == Len(vp) + 16
            img == result[t].image
        IN  /\ Len(tg) = 16
            /\ img = MAGIC \o <<cipher_len % 256, cipher_len \div 256, 0, 0>>
                     \o <<2, 0, 0, 0>>
                     \o to_bytes_le(RsaModulus) \o to_bytes_le(RsaExponent)
                     \o RsaSign(sha_256(tg)) \o ct \o tg
            /\ Field(img, Len(img) - cipher_len, cipher_len) = ct \o tg

C7_Witness ==
    \E t \in Invocations :
        /\ Returned(t, "Aes") /\ result[t].kind = "Ok" /\ Len(data[t]) = 2

(* C8: cipher_len (Sm4, Aes), enc_type (every variant) and id_len (Sm4)    *)
(* are written least-significant byte first on every platform; data_len of *)
(* the None variant is in the platform's byte order: the little-endian     *)
(* bytes on a little-endian platform, their reverse on a big-endian one.   *)
C8_Le(n) == <<n % 256, (n \div 256) % 256, (n \div 65536) % 256, (n \div 16777216) % 256>>
C8_Reverse(b) == <<b[4], b[3], b[2], b[1]>>

C9_Alone(d, enc, k) ==
    LET vp == VERSION \o d
        sm4ct == Sm4CbcEncrypt(vp)
        sm4sig == sign_raw(SigCtxHash(Sm3Hash(Sm3Hash(ID_LEN \o ID \o CurveA \o CurveB
                      \o CurveGx \o CurveGy \o PUBLIC_KEY) \o sm4ct)), k)
        aesct == AesGcmEncrypt(vp)
        aestag == AesGcmTag(ADD_AUTH_DATA, aesct)
    IN  IF config.fault \in C4_StepsOf(enc) THEN Err(C4_KindOf(config.fault))
        ELSE CASE enc = "None" ->
                    Ok(MAGIC \o to_ne_bytes(Len(vp)) \o to_le_bytes(0) \o sha_256(vp)
                       \o Zeros(484) \o vp)
               [] enc = "Sm4" ->
                    IF Len(ID) > 384 THEN Panic(PaddingPanic)
                    ELSE Ok(MAGIC \o to_le_bytes(Len(sm4ct)) \o to_le_bytes(1)
                            \o to_le_bytes(Len(ID)) \o ID \o Zeros(384 - Len(ID))
                            \o PUBLIC_KEY_X \o PUBLIC_KEY_Y
                            \o to_bytes_le(sm4sig.r) \o to_bytes_le(sm4sig.s) \o sm4ct)
               [] enc = "Aes" ->
                    Ok(MAGIC \o to_le_bytes(Len(aesct) + 16) \o to_le_bytes(2)
                       \o to_bytes_le(RsaModulus) \o to_bytes_le(RsaExponent)
                       \o RsaSign(sha_256(aestag)) \o aesct \o aestag)

C9_ResultsAsAlone ==
    \A t \in Invocations : pc[t] = "done" =>
        result[t] = C9_Alone(data[t], encryption[t], nonce[t])

(* C9: concurrent invocations share no mutable state: each reads only the  *)
(* constant key material and writes only its own buffers, so under every   *)
(* interleaving each returns the image or error it returns when run alone  *)
(* (up to the signer's own randomness), and the key material is never      *)
(* modified.                                                               *)
C9_Isolation == [](C9_ResultsAsAlone) /\ [][config' = config]_vars

C9_Witness ==
    /\ \A t \in Invocations : pc[t] = "done"
    /\ \E t, u \in Invocations :
          /\ result[t].kind = "Ok" /\ encryption[t] = "Sm4"
          /\ result[u].kind = "Ok" /\ encryption[u] = "Aes"

-----------------------------------------------------------------------------
(* Properties of EncryptionType::from_str.                                 *)

C6_Spelling(s, lower, upper) ==
    /\ Len(s) = Len(lower)
    /\ \A i \in 1..Len(s) : s[i] = lower[i] \/ s[i] = upper[i]

(* C6: from_str matches case-insensitively: every upper/lower-case         *)
(* spelling of "none", "sm4" and "aes" yields None, Sm4 and Aes, and every *)
(* other string (the empty string and strings with surrounding whitespace  *)
(* included) fails with InvalidEncryptionType.                             *)
C6_CaseInsensitive ==
    str_out # "pending" =>
        str_out =
            CASE C6_Spelling(str_in, <<110, 111, 110, 101>>, <<78, 79, 78, 69>>) -> "None"
              [] C6_Spelling(str_in, <<115, 109, 52>>, <<83, 77, 52>>) -> "Sm4"
              [] C6_Spelling(str_in, <<97, 101, 115>>, <<65, 69, 83>>) -> "Aes"
              [] OTHER -> "InvalidEncryptionType"

C6_Witness == str_in = <<115, 77, 52>> /\ str_out = "Sm4"

-----------------------------------------------------------------------------
(* Properties of PadOps.                                                   *)

C10_Both(r) == r.pull_up_enable /\ r.pull_down_enable

C10_AfterSetPull ==
    /\ \A p \in Pull : last_op = <<"set_pull", p>> =>
          /\ ~C10_Both(pad)
          /\ pad.pull_up_enable = (p = "Up")
          /\ pad.pull_down_enable = (p = "Down")
          /\ pull_ret # "unused" =>
                pull_ret = (CASE p = "None" -> "Some(None)" [] p = "Up" -> "Some(Up)"
                              [] p = "Down" -> "Some(Down)")
    /\ pull_ret = "None" => C10_Both(pad)

C10_OtherFieldsKept ==
    /\ pad'.schmitt_trigger_enable = pad.schmitt_trigger_enable
    /\ pad'.slew_rate = pad.slew_rate
    /\ pad'.drive_strength = pad.drive_strength
    /\ pad'.function_select = pad.function_select
    /\ pad'.input_enable = pad.input_enable
    /\ pad'.output_enable = pad.output_enable
    /\ pad'.data_input = pad.data_input

(* C10: for a single caller, from any register state (both pulls enabled   *)
(* included), after any sequence of operations ending in set_pull(p) at    *)
(* most one pull enable is set and pull() returns Some(p); pull() returns  *)
(* None only when both are enabled, which no operation produces; set_pull  *)
(* changes no field other than the two pull enables.                       *)
C10_SetPullThenPull ==
    /\ [](C10_AfterSetPull)
    /\ [][~C10_Both(pad) => ~C10_Both(pad')]_vars
    /\ [][(\E p \in Pull : set_pull(p)) => C10_OtherFieldsKept]_vars

C10_Witness ==
    /\ last_op = <<"set_pull", "Down">> /\ pull_ret = "Some(Down)"
    /\ pad.schmitt_trigger_enable /\ pad.function_select = 5

=============================================================================
